---- MODULE Spec2Model ----
(***************************************************************************)
(* Model of src/main.rs: the documentation synchroniser.  One primary      *)
(* (Rust) file is scanned for #[doc(alias = "...")] declarations, the      *)
(* secondary (C) corpus is resolved to rendered bodies, the bodies are     *)
(* spliced into the buffer and the buffer is printed or written back.      *)
(*                                                                         *)
(* Text is a sequence of one-byte characters.  The spelling of tokens is   *)
(* abbreviated to one character each:                                      *)
(*   "/"        the documentation-comment marker ("/// "); the comment     *)
(*              token runs from the marker to the end of its line          *)
(*   "A", "B"   the attribute #[doc(alias = "A")] resp. "B"                *)
(*   "f"        the tokens of a declaration proper (fn, struct, variant..) *)
(*   "x", "y"   text of comments already in the primary file               *)
(*   "a", "b"   text of comments of the secondary corpus                   *)
(***************************************************************************)
EXTENDS Integers, Sequences, FiniteSets, TLC

VARIABLES
    args,           \* Args: [in_place, backup]
    input,          \* the primary file's content when the run read it
    source,         \* RustFile.source: the buffer
    visited,        \* how many declarations the visitor has visited
    decl,           \* the declaration visited last (an Option)
    doc_locations,  \* RustFile.doc_locations: alias -> <<column, range>>*
    corpus,         \* the entities visit_children visits, in visiting order
    cvisited,       \* how many of them have been visited
    c_docs,         \* alias -> rendered body ("" = empty String)
    changed,        \* main's `changed`
    orig,           \* main's `orig` (Option<String>)
    replacements,   \* main's `replacements`, as collected (before the sort)
    fs,             \* the writes and prints of phase 3, in order
    pc,             \* where main is
    run,            \* 1: the first run, 2: a second run on the first's output
    firstOut,       \* the buffer the first run ended with
    xml,            \* a <Para> element handed to get_paragraphs
    rendered        \* what the fold of get_paragraphs made of it

vars == <<args, input, source, visited, decl, doc_locations, corpus, cvisited,
          c_docs, changed, orig, replacements, fs, pc, run, firstOut, xml,
          rendered>>

----
\* Bounds of the model.

\* The most declarations a generated primary file holds.
MaxDecls == 2
\* The most entities of a generated secondary corpus.
MaxCorpus == 3
\* The most lines a comment already in a primary file has.
MaxComment == 2
\* The most declarations the visitor is handed in the scanner specification.
MaxVisits == 2
\* The largest column the parser reports in the scanner specification.
MaxCol == 2
\* The most replacements handed to the splice in the splice specification.
MaxReps == 2
\* The length of the buffer in the splice specification.
SpliceLen == 3
\* The most children of a generated XML element.
MaxChildren == 2

----
\* Options and characters.

None == <<>>
Some(x) == <<x>>
IsSome(o) == o # <<>>
Unwrap(o) == o[1]

NL == "\n"
SP == " "
DocMarker == "/"
AliasKeys == {"A", "B"}
ItemChar == "f"

Last(q) == q[Len(q)]

Min(S) == CHOOSE x \in S : \A y \in S : x <= y
Max(S) == CHOOSE x \in S : \A y \in S : x >= y

\* The elements of a finite set of integers, ascending.
SortedSeq(S) ==
    [i \in 1..Cardinality(S) |->
        CHOOSE x \in S : Cardinality({y \in S : y < x}) = i - 1]

RECURSIVE Concat(_)
Concat(ss) == IF ss = <<>> THEN <<>> ELSE Head(ss) \o Concat(Tail(ss))

\* " ".repeat(n)
Spaces(n) == [i \in 1..n |-> SP]

----
\* str::lines (no "\r" in the model's alphabet).

\* 1-based indices of the newlines of s.
NLPos(s) == {i \in 1..Len(s) : s[i] = NL}

\* 0-based byte offsets at which the lines of s start: a final newline starts
\* no line, the empty string has no line.
LineStarts(s) == {o \in {0} \cup NLPos(s) : o < Len(s)}

NumLines(s) == Cardinality(LineStarts(s))

LineStart(s, n) == SortedSeq(LineStarts(s))[n]

\* 0-based offset just past line n (its newline excluded).
LineEnd(s, n) ==
    Min({i - 1 : i \in {j \in NLPos(s) : j > LineStart(s, n)}} \cup {Len(s)})

Line(s, n) == SubSeq(s, LineStart(s, n) + 1, LineEnd(s, n))

Lines(s) == [n \in 1..NumLines(s) |-> Line(s, n)]

\* lines.join("\n")
RECURSIVE JoinLines(_)
JoinLines(ls) ==
    IF ls = <<>> THEN <<>>
    ELSE IF Len(ls) = 1 THEN ls[1]
    ELSE ls[1] \o <<NL>> \o JoinLines(Tail(ls))

----
\* Source::position and Source::range_for.  A position is <<line, column>>,
\* line 1-indexed, column 0-indexed in characters; a span is
\* <<start, end>>; a range is <<start, end>> in 0-based byte offsets,
\* half open.

\* A lookup whose column is not clamped to the end of the line.
PositionNoClamp(s, pos) ==
    IF pos[1] < 1 \/ pos[1] > NumLines(s) THEN None
    ELSE Some(LineStart(s, pos[1]) + pos[2])

position(s, pos) ==
    IF pos[1] < 1 \/ pos[1] > NumLines(s) THEN None
    ELSE LET l == Line(s, pos[1])
             index == IF pos[2] < Len(l) THEN pos[2] ELSE Len(l)
         IN  Some(LineStart(s, pos[1]) + index)

range_for(s, span) ==
    LET a == position(s, span[1])
        b == position(s, span[2])
    IN  IF IsSome(a) /\ IsSome(b) THEN Some(<<Unwrap(a), Unwrap(b)>>) ELSE None

----
\* DocAlias::find, DocComment::find: the first attribute that parses.  A
\* declaration is [start, aliases, docs]: the start of its span, the keys
\* of its well-formed alias attributes and the spans of its documentation
\* comment attributes, both in source order.

DocAlias_find(d) == IF d.aliases = <<>> THEN None ELSE Some(d.aliases[1])
DocComment_find(d) == IF d.docs = <<>> THEN None ELSE Some(d.docs[1])

\* HashMap::entry(alias).or_default()
Entry(locs, alias) ==
    IF alias \in DOMAIN locs THEN locs ELSE (alias :> <<>>) @@ locs

Push(locs, alias, site) == [locs EXCEPT ![alias] = Append(@, site)]

try_replace_docs(locs, s, d) ==
    LET alias == DocAlias_find(d) IN
    IF ~IsSome(alias) THEN locs
    ELSE
      LET k == Unwrap(alias)
          locations == Entry(locs, k)
          doc == DocComment_find(d)
          range == IF IsSome(doc) THEN range_for(s, Unwrap(doc)) ELSE None
          has_docs == IsSome(doc) /\ IsSome(range)
          pos == position(s, d.start)
      IN  IF has_docs
          THEN Push(locations, k, <<Unwrap(doc)[1][2], Unwrap(range)>>)
          ELSE IF IsSome(pos)
               THEN Push(locations, k, <<d.start[2], <<Unwrap(pos), Unwrap(pos)>>>>)
               ELSE locations

----
\* syn::parse_file and the visitor's walk, over the abbreviated tokens.

\* 1-based index of the first character of the line holding index p.
LineBeg(s, p) == 1 + Max({0} \cup {i \in NLPos(s) : i < p})

\* 1-based index just past the line holding index p.
LineStop(s, p) == Min({i \in NLPos(s) : i >= p} \cup {Len(s) + 1})

\* proc_macro2's LineColumn of index p.
PosOf(s, p) == <<1 + Cardinality({i \in NLPos(s) : i < p}), p - LineBeg(s, p)>>

\* Indices at which a token starts: not white space, and not inside a
\* documentation comment, which runs to the end of its line.
TokStarts(s) ==
    {p \in 1..Len(s) :
        /\ s[p] \notin {SP, NL}
        /\ \A q \in LineBeg(s, p)..(p - 1) : s[q] # DocMarker}

Items(s) == {p \in TokStarts(s) : s[p] = ItemChar}

\* The attributes of the item at p: the tokens since the item before it.
AttrsOf(s, p) ==
    LET prev == Max({0} \cup {q \in Items(s) : q < p})
    IN  {q \in TokStarts(s) : prev < q /\ q < p}

\* The span of the documentation comment token at p.
DocSpan(s, p) ==
    <<PosOf(s, p), <<PosOf(s, p)[1], LineStop(s, p) - LineBeg(s, p)>>>>

DeclAt(s, p) ==
    LET attrs == AttrsOf(s, p)
        al == SortedSeq({q \in attrs : s[q] \in AliasKeys})
        dc == SortedSeq({q \in attrs : s[q] = DocMarker})
    IN  [start   |-> PosOf(s, Min(attrs \cup {p})),
         aliases |-> [i \in 1..Len(al) |-> s[al[i]]],
         docs    |-> [i \in 1..Len(dc) |-> DocSpan(s, dc[i])]]

\* syn::parse_file succeeds: every token is one of the grammar's, and no
\* attribute is left without an item.
ParseOk(s) ==
    /\ \A p \in TokStarts(s) : s[p] \in {DocMarker, ItemChar} \cup AliasKeys
    /\ \A p \in TokStarts(s) : s[p] = ItemChar \/ \E q \in Items(s) : q > p

ParseFile(s) ==
    LET it == SortedSeq(Items(s))
    IN  [i \in 1..Len(it) |-> DeclAt(s, it[i])]

----
\* xml_to_markdown.  A parsed comment is [wellformed, md]: whether
\* roxmltree parses its XML, and the Markdown text the walk of the document
\* writes into `md` (main.rs 340-381); the lines of that text are prefixed
\* with the comment marker and joined.

PrefixLines(md) ==
    JoinLines([i \in 1..NumLines(md) |-> <<DocMarker>> \o Line(md, i)])

\* Ok(body) as Some(body), Err as None.
xml_to_markdown(comment) ==
    IF comment.wellformed THEN Some(PrefixLines(comment.md)) ELSE None

\* An entity of the secondary corpus is [kind, name, comment], name and
\* comment Options.
DocKinds == {"FunctionDecl", "StructDecl", "TypedefDecl", "EnumDecl",
             "EnumConstantDecl"}

\* The visitor's callback on entity e: <<c_docs, res>>, res FALSE for the
\* error that breaks the visit.
resolve_entity(docs, e) ==
    IF /\ e.kind \in DocKinds
       /\ IsSome(e.name) /\ IsSome(e.comment)
       /\ Unwrap(e.name) \in DOMAIN docs
       /\ docs[Unwrap(e.name)] = <<>>
    THEN LET d == xml_to_markdown(Unwrap(e.comment))
         IN  IF IsSome(d)
             THEN <<[docs EXCEPT ![Unwrap(e.name)] = Unwrap(d)], TRUE>>
             ELSE <<docs, FALSE>>
    ELSE <<docs, TRUE>>

----
\* Phase 3: reindent, collect, sort, splice.

\* The text spliced at a site of column `column` for body `doc`.
reindent(doc, column) ==
    IF column > 0
    THEN JoinLines([i \in 1..NumLines(doc) |->
                      IF i > 1 THEN Spaces(column) \o Line(doc, i)
                      ELSE Line(doc, i)])
         \o <<NL>> \o Spaces(column)
    ELSE doc

\* The replacements one alias contributes: <<text, range>> per site.
RepsOf(docs, locs, ident) ==
    IF ident \in DOMAIN docs /\ docs[ident] # <<>>
    THEN [i \in 1..Len(locs[ident]) |->
            <<reindent(docs[ident], locs[ident][i][1]), locs[ident][i][2]>>]
    ELSE <<>>

\* The loop over the HashMap, which iterates in the order `order`.
collect(docs, locs, order) ==
    Concat([i \in 1..Len(order) |-> RepsOf(docs, locs, order[i])])

\* `changed` after the loop.
changed_after(docs, locs) ==
    \E ident \in DOMAIN locs : ident \in DOMAIN docs /\ docs[ident] # <<>>

\* sort_by_key(range.start): stable.
sort_by_start(reps) ==
    LET n == Len(reps)
        before(i, j) == reps[i][2][1] < reps[j][2][1]
                        \/ (reps[i][2][1] = reps[j][2][1] /\ i < j)
        at(k) == CHOOSE i \in 1..n :
                    Cardinality({j \in 1..n : before(j, i)}) = k - 1
    IN  [k \in 1..n |-> reps[at(k)]]

Reverse(q) == [i \in 1..Len(q) |-> q[Len(q) + 1 - i]]

\* String::replace_range: None for the panic on a range out of bounds.
replace_range(s, range, text) ==
    IF range[1] <= range[2] /\ range[2] <= Len(s)
    THEN Some(SubSeq(s, 1, range[1]) \o text \o SubSeq(s, range[2] + 1, Len(s)))
    ELSE None

RECURSIVE apply_all(_, _)
apply_all(s, reps) ==
    IF reps = <<>> THEN Some(s)
    ELSE LET r == replace_range(s, Head(reps)[2], Head(reps)[1])
         IN  IF IsSome(r) THEN apply_all(Unwrap(r), Tail(reps)) ELSE None

\* The replacements applied front to back, the `rev` left out.
apply_order_ascending(reps) == sort_by_start(reps)

\* The order in which the replacements are applied.
apply_order(reps) == Reverse(sort_by_start(reps))

splice(s, reps) == apply_all(s, apply_order(reps))

\* The orders a HashMap with the keys K may iterate in.
Orders(K) ==
    {o \in [1..Cardinality(K) -> K] : \A i, j \in DOMAIN o : i # j => o[i] # o[j]}

orig_capture(a, s) == IF a.in_place /\ a.backup THEN Some(s) ELSE None

\* The file written before its backup.
write_plan_file_first(a, ch, o) ==
    IF ~(a.in_place /\ ch) THEN <<>>
    ELSE IF IsSome(o) THEN <<"write", "backup">>
    ELSE <<"write">>

\* The writes phase 3 makes in place, in order (main.rs 278-283): nothing
\* for an unchanged file, else the backup when `orig` was captured, then the
\* file.
write_plan(a, ch, o) ==
    IF ~(a.in_place /\ ch) THEN <<>>
    ELSE IF IsSome(o) THEN <<"backup", "write">>
    ELSE <<"write">>

----
\* Inputs: primary files, corpora, arguments.

Indents == {0, 2}
OldText(i) == IF i % 2 = 1 THEN "x" ELSE "y"

\* The shapes of one declaration of a generated primary file: its column,
\* the lines of its comment, its alias ("" for none) and whether the alias
\* attribute stands before the comment.
DeclShapes ==
    [indent : Indents, ncom : 0..MaxComment, alias : {""} \cup AliasKeys,
     aliasFirst : BOOLEAN]

DeclText(t) ==
    LET ind == Spaces(t.indent)
        comments == Concat([i \in 1..t.ncom |->
                              ind \o <<DocMarker, OldText(i), NL>>])
        aliasLine == IF t.alias = "" THEN <<>> ELSE ind \o <<t.alias, NL>>
        item == ind \o <<ItemChar, NL>>
    IN  IF t.aliasFirst THEN aliasLine \o comments \o item
        ELSE comments \o aliasLine \o item

Files ==
    UNION {{Concat([i \in 1..n |-> DeclText(ts[i])]) : ts \in [1..n -> DeclShapes]}
           : n \in 1..MaxDecls}

Comment(md) == [wellformed |-> TRUE, md |-> md]
BadComment == [wellformed |-> FALSE, md |-> <<>>]
Ent(kind, name, comment) == [kind |-> kind, name |-> name, comment |-> comment]
Fn(k, md) == Ent("FunctionDecl", Some(k), Some(Comment(md)))

SmallCorpora ==
    {<<Fn("A", <<"a">>)>>,
     <<Fn("A", <<"a", NL, "b">>), Fn("B", <<"b">>)>>,
     <<Fn("B", <<"a">>), Ent("VarDecl", Some("A"), Some(Comment(<<"b">>)))>>}

ArgSets == [in_place : BOOLEAN, backup : BOOLEAN]

----
\* The run.

Start(a, file, c) ==
    /\ args = a
    /\ input = file
    /\ source = file
    /\ visited = 0
    /\ decl = None
    /\ doc_locations = <<>>
    /\ corpus = c
    /\ cvisited = 0
    /\ c_docs = <<>>
    /\ changed = FALSE
    /\ orig = None
    /\ replacements = <<>>
    /\ fs = <<>>
    /\ pc = "scan"
    /\ run = 1
    /\ firstOut = <<>>
    /\ xml = <<>>
    /\ rendered = None

Init == \E a \in ArgSets, file \in Files, c \in SmallCorpora : Start(a, file, c)

\* visit_file reaches the next declaration of the parsed file (main.rs
\* 128-155) and calls try_replace_docs on it.
VisitDecl ==
    /\ pc = "scan"
    /\ visited < Len(ParseFile(input))
    /\ LET d == ParseFile(input)[visited + 1]
       IN  /\ doc_locations' = try_replace_docs(doc_locations, input, d)
           /\ decl' = Some(d)
    /\ visited' = visited + 1
    /\ UNCHANGED <<args, input, source, corpus, cvisited, c_docs, changed, orig,
                   replacements, fs, pc, run, firstOut, xml, rendered>>

\* The scan is over; c_docs gets an empty body per alias (main.rs 197-200).
BuildCDocsWhen(over) ==
    /\ pc = "scan"
    /\ over
    /\ c_docs' = [k \in DOMAIN doc_locations |-> <<>>]
    /\ decl' = None
    /\ cvisited' = 0
    /\ pc' = "resolve"
    /\ UNCHANGED <<args, input, source, visited, doc_locations, corpus, changed,
                   orig, replacements, fs, run, firstOut, xml, rendered>>

BuildCDocs == BuildCDocsWhen(visited = Len(ParseFile(input)))

\* visit_children's callback on the next entity (main.rs 211-236).
ResolveEntity ==
    /\ pc = "resolve"
    /\ cvisited < Len(corpus)
    /\ LET r == resolve_entity(c_docs, corpus[cvisited + 1])
       IN  /\ c_docs' = r[1]
           /\ pc' = IF r[2] THEN "resolve" ELSE "error"
    /\ cvisited' = cvisited + 1
    /\ UNCHANGED <<args, input, source, visited, decl, doc_locations, corpus,
                   changed, orig, replacements, fs, run, firstOut, xml, rendered>>

EndResolve ==
    /\ pc = "resolve"
    /\ cvisited = Len(corpus)
    /\ pc' = "splice"
    /\ UNCHANGED <<args, input, source, visited, decl, doc_locations, corpus,
                   cvisited, c_docs, changed, orig, replacements, fs, run,
                   firstOut, xml, rendered>>

\* main.rs 240-275 for the file, the HashMap iterating in some order.
Splice ==
    /\ pc = "splice"
    /\ \E order \in Orders(DOMAIN doc_locations) :
         LET reps == collect(c_docs, doc_locations, order)
             res == splice(source, reps)
         IN  /\ replacements' = reps
             /\ source' = IF IsSome(res) THEN Unwrap(res) ELSE source
             /\ pc' = IF IsSome(res) THEN "output" ELSE "panic"
    /\ changed' = changed_after(c_docs, doc_locations)
    /\ orig' = orig_capture(args, source)
    /\ UNCHANGED <<args, input, visited, decl, doc_locations, corpus, cvisited,
                   c_docs, fs, run, firstOut, xml, rendered>>

Event(op, data, ok) == [op |-> op, data |-> data, ok |-> ok]

\* println! (main.rs 276-277)
PrintFile ==
    /\ pc = "output"
    /\ ~args.in_place
    /\ fs' = Append(fs, Event("print", source, TRUE))
    /\ pc' = "done"
    /\ UNCHANGED <<args, input, source, visited, decl, doc_locations, corpus,
                   cvisited, c_docs, changed, orig, replacements, run, firstOut,
                   xml, rendered>>

\* In place and nothing to write (main.rs 278).
Skip ==
    /\ pc = "output"
    /\ args.in_place
    /\ write_plan(args, changed, orig) = <<>>
    /\ pc' = "done"
    /\ UNCHANGED <<args, input, source, visited, decl, doc_locations, corpus,
                   cvisited, c_docs, changed, orig, replacements, fs, run,
                   firstOut, xml, rendered>>

\* The next fs::write of the plan, which succeeds or fails; `?` ends the run
\* on a failure.
WriteNext(op, data) ==
    LET plan == write_plan(args, changed, orig) IN
    /\ pc = "output"
    /\ args.in_place
    /\ Len(fs) < Len(plan)
    /\ plan[Len(fs) + 1] = op
    /\ \E ok \in BOOLEAN :
         /\ fs' = Append(fs, Event(op, data, ok))
         /\ pc' = IF ~ok THEN "failed"
                  ELSE IF Len(fs) + 1 = Len(plan) THEN "done" ELSE "output"
    /\ UNCHANGED <<args, input, source, visited, decl, doc_locations, corpus,
                   cvisited, c_docs, changed, orig, replacements, run, firstOut,
                   xml, rendered>>

\* fs::write of the backup (main.rs 279-281).
WriteBackup == IsSome(orig) /\ WriteNext("backup", Unwrap(orig))

\* fs::write of the file (main.rs 282).
WriteFile == WriteNext("write", source)

\* The tool is run again, on what the first run left (or printed), against
\* the same corpus.
RunAgain ==
    /\ pc = "done"
    /\ run = 1
    /\ run' = 2
    /\ firstOut' = source
    /\ input' = source
    /\ visited' = 0
    /\ decl' = None
    /\ doc_locations' = <<>>
    /\ cvisited' = 0
    /\ c_docs' = <<>>
    /\ changed' = FALSE
    /\ orig' = None
    /\ replacements' = <<>>
    /\ fs' = <<>>
    /\ pc' = IF ParseOk(source) THEN "scan" ELSE "error"
    /\ UNCHANGED <<args, source, corpus, xml, rendered>>

Next ==
    \/ VisitDecl
    \/ BuildCDocs
    \/ ResolveEntity
    \/ EndResolve
    \/ Splice
    \/ PrintFile
    \/ Skip
    \/ WriteBackup
    \/ WriteFile
    \/ RunAgain

Spec == Init /\ [][Next]_vars

----
\* The scanner on any well-formed declaration tree.  The parser is an
\* external collaborator: here the declarations it hands the visitor are
\* drawn one by one, each after the tokens of the one before, with lines up
\* to one past the buffer's last and columns up to MaxCol, so that lookups
\* are clamped or unresolved.

ScanSources == {<<ItemChar, NL, ItemChar>>}

ScanCorpora == {<<Fn("A", <<"a", NL, "b">>)>>}

LexLE(p, q) == p[1] < q[1] \/ (p[1] = q[1] /\ p[2] <= q[2])

\* The position just past the declaration's first token.
PastStart(d) == <<d.start[1], d.start[2] + 1>>

\* The position past the tokens seen so far.
Cursor(prev) ==
    IF ~IsSome(prev) THEN <<1, 0>>
    ELSE IF Unwrap(prev).docs # <<>> THEN Last(Unwrap(prev).docs)[2]
    ELSE PastStart(Unwrap(prev))

\* The declarations that may follow `prev`: a start past the tokens seen,
\* no alias or one, and for an aliased one no comment or a one-line comment
\* token that is the declaration's first token or comes after it.  (The
\* comment of a declaration without alias is never looked at.)
NextDecls(s, prev) ==
    LET starts == {p \in (1..(NumLines(s) + 1)) \X (0..MaxCol) : LexLE(Cursor(prev), p)}
        spans(start) ==
            {sp \in ((1..(NumLines(s) + 1)) \X (0..MaxCol))
                    \X ((1..(NumLines(s) + 1)) \X (1..(MaxCol + 1))) :
                /\ sp[1][1] = sp[2][1]
                /\ sp[1][2] < sp[2][2]
                /\ (sp[1] = start \/ LexLE(<<start[1], start[2] + 1>>, sp[1]))}
    IN  {[start |-> p, aliases |-> <<>>, docs |-> <<>>] : p \in starts}
        \cup {[start |-> p, aliases |-> <<k>>, docs |-> <<>>] :
                p \in starts, k \in AliasKeys}
        \cup UNION {{[start |-> p, aliases |-> <<k>>, docs |-> <<sp>>] :
                        k \in AliasKeys, sp \in spans(p)} : p \in starts}

InitScan ==
    \E a \in ArgSets, file \in ScanSources, c \in ScanCorpora : Start(a, file, c)

\* The visitor reaches a declaration and calls try_replace_docs on it.
ScanVisit ==
    /\ pc = "scan"
    /\ visited < MaxVisits
    /\ \E d \in NextDecls(input, decl) :
         /\ doc_locations' = try_replace_docs(doc_locations, input, d)
         /\ decl' = Some(d)
    /\ visited' = visited + 1
    /\ UNCHANGED <<args, input, source, corpus, cvisited, c_docs, changed, orig,
                   replacements, fs, pc, run, firstOut, xml, rendered>>

ScanBuildCDocs == BuildCDocsWhen(TRUE)

NextScan ==
    \/ ScanVisit
    \/ ScanBuildCDocs
    \/ ResolveEntity
    \/ EndResolve
    \/ Splice
    \/ PrintFile
    \/ Skip
    \/ WriteBackup
    \/ WriteFile

SpecScan == InitScan /\ [][NextScan]_vars

----
\* The resolver on any corpus: the scan of a small file is over, and the
\* entities of the corpus are visited.

ResolveFiles ==
    {<<"A", NL, ItemChar, NL>>,
     <<"A", NL, ItemChar, NL, "B", NL, ItemChar, NL>>}

ResolveMd == {<<>>, <<"a">>, <<"b">>}

Entities ==
    {Ent(kind, name, comment) :
        kind \in {"FunctionDecl", "VarDecl"},
        name \in {None} \cup {Some(k) : k \in AliasKeys},
        comment \in {None, Some(BadComment)} \cup {Some(Comment(md)) : md \in ResolveMd}}

SeqsUpTo(S, n) == UNION {[1..m -> S] : m \in 0..n}

RECURSIVE scan_all(_, _, _)
scan_all(locs, s, ds) ==
    IF ds = <<>> THEN locs
    ELSE scan_all(try_replace_docs(locs, s, Head(ds)), s, Tail(ds))

InitResolve ==
    \E file \in ResolveFiles, c \in SeqsUpTo(Entities, MaxCorpus) :
        /\ args = [in_place |-> FALSE, backup |-> FALSE]
        /\ input = file
        /\ source = file
        /\ visited = Len(ParseFile(file))
        /\ decl = None
        /\ doc_locations = scan_all(<<>>, file, ParseFile(file))
        /\ corpus = c
        /\ cvisited = 0
        /\ c_docs = [k \in DOMAIN doc_locations |-> <<>>]
        /\ changed = FALSE
        /\ orig = None
        /\ replacements = <<>>
        /\ fs = <<>>
        /\ pc = "resolve"
        /\ run = 1
        /\ firstOut = <<>>
        /\ xml = <<>>
        /\ rendered = None

NextResolve ==
    \/ ResolveEntity
    \/ EndResolve

SpecResolve == InitResolve /\ [][NextResolve]_vars

----
\* The splice on any sites: the resolver is over, and the sites of the two
\* aliases are any ranges within the buffer.

SpliceBuffer == SubSeq(<<"p", "q", "r", "s", "t", "u", "v", "w">>, 1, SpliceLen)

SpliceSites ==
    {<<col, <<st, en>>>> : col \in {0, 1}, st \in 0..SpliceLen, en \in 0..SpliceLen} \cap
    {site \in Nat \X (Nat \X Nat) : site[2][1] <= site[2][2]}

SpliceDocs == {("A" :> <<DocMarker, "a">>) @@ ("B" :> <<DocMarker, "b">>)}

\* The sites of alias k among the <<alias, site>> pairs ps, in their order.
SitesFor(ps, k) ==
    LET own == SelectSeq(ps, LAMBDA x : x[1] = k)
    IN  [i \in 1..Len(own) |-> own[i][2]]

InitSplice ==
    \E ps \in SeqsUpTo(AliasKeys \X SpliceSites, MaxReps), docs \in SpliceDocs :
        /\ args = [in_place |-> FALSE, backup |-> FALSE]
        /\ input = SpliceBuffer
        /\ source = SpliceBuffer
        /\ visited = 0
        /\ decl = None
        /\ doc_locations = ("A" :> SitesFor(ps, "A")) @@ ("B" :> SitesFor(ps, "B"))
        /\ corpus = <<>>
        /\ cvisited = 0
        /\ c_docs = docs
        /\ changed = FALSE
        /\ orig = None
        /\ replacements = <<>>
        /\ fs = <<>>
        /\ pc = "splice"
        /\ run = 1
        /\ firstOut = <<>>
        /\ xml = <<>>
        /\ rendered = None

NextSplice == Splice

SpecSplice == InitSplice /\ [][NextSplice]_vars

----
\* get_paragraphs on one <Para>.  A node is [kind, tag, text, children],
\* kind "text", "element" or "other" (a comment, a processing instruction).

TextNode(t) == [kind |-> "text", tag |-> "", text |-> t, children |-> <<>>]
Element(tag, ch) == [kind |-> "element", tag |-> tag, text |-> <<>>, children |-> ch]
OtherNode == [kind |-> "other", tag |-> "", text |-> <<>>, children |-> <<>>]

\* roxmltree's Node::text: a text node's text, an element's first child if
\* that is a text node.
node_text(n) ==
    IF n.kind = "text" THEN Some(n.text)
    ELSE IF n.kind = "element" /\ n.children # <<>> /\ n.children[1].kind = "text"
         THEN Some(n.children[1].text)
    ELSE None

\* Node::descendants: the node and its descendants in document order.
RECURSIVE descendants(_)
descendants(n) ==
    <<n>> \o Concat([i \in 1..Len(n.children) |-> descendants(n.children[i])])

\* AsMarkdown::code: the text between code quotes (written "~" here).
code(t) == <<"~">> \o t \o <<"~">>

\* The inner fold over c's descendants (main.rs 306-312): None is the panic
\* of unwrap on a None.
RECURSIVE fold_descendants(_, _, _)
fold_descendants(item, c, ds) ==
    IF ds = <<>> THEN Some(item)
    ELSE IF Head(ds).kind = "text"
         THEN IF IsSome(node_text(c))
              THEN fold_descendants(item \o Unwrap(node_text(c)), c, Tail(ds))
              ELSE None
    ELSE fold_descendants(item, c, Tail(ds))

\* The closure folded over the children of the <Para> (main.rs 295-316).
fold_child(item, c) ==
    IF c.kind = "text" THEN Some(item \o Unwrap(node_text(c)))
    ELSE IF c.kind = "element"
         THEN IF IsSome(node_text(c))
              THEN IF c.tag = "emphasized"
                   THEN Some(item \o code(Unwrap(node_text(c))))
                   ELSE Some(item \o Unwrap(node_text(c)))
              ELSE fold_descendants(item, c, descendants(c))
    ELSE Some(item)

RECURSIVE fold_children(_, _)
fold_children(item, cs) ==
    IF cs = <<>> THEN Some(item)
    ELSE LET r == fold_child(item, Head(cs))
         IN  IF IsSome(r) THEN fold_children(Unwrap(r), Tail(cs)) ELSE None

get_paragraph(para) == fold_children(<<>>, para.children)

Tags == {"emphasized", "bold"}
Texts == {<<"t">>, <<"u">>}
Leaves == {TextNode(t) : t \in Texts} \cup {Element(tag, <<>>) : tag \in Tags}
          \cup {OtherNode}
Shallow ==
    Leaves \cup {Element(tag, ch) : tag \in Tags,
                                   ch \in SeqsUpTo(Leaves, MaxChildren) \ {<<>>}}
Nested == Shallow \cup {Element(tag, <<c>>) : tag \in Tags, c \in Shallow \ Leaves}

InitRender ==
    \E ch \in SeqsUpTo(Nested, MaxChildren) :
        /\ args = [in_place |-> FALSE, backup |-> FALSE]
        /\ input = <<>>
        /\ source = <<>>
        /\ visited = 0
        /\ decl = None
        /\ doc_locations = <<>>
        /\ corpus = <<>>
        /\ cvisited = 0
        /\ c_docs = <<>>
        /\ changed = FALSE
        /\ orig = None
        /\ replacements = <<>>
        /\ fs = <<>>
        /\ pc = "render"
        /\ run = 1
        /\ firstOut = <<>>
        /\ xml = Element("Para", ch)
        /\ rendered = None

\* The fold over the children of the <Para>.
RenderPara ==
    /\ pc = "render"
    /\ rendered' = get_paragraph(xml)
    /\ pc' = IF IsSome(get_paragraph(xml)) THEN "rendered" ELSE "panic"
    /\ UNCHANGED <<args, input, source, visited, decl, doc_locations, corpus,
                   cvisited, c_docs, changed, orig, replacements, fs, run,
                   firstOut, xml>>

NextRender == RenderPara

SpecRender == InitRender /\ [][NextRender]_vars

----
\* Properties.

AfterSplice == pc \in {"output", "done", "failed"}

\* C1: a second run against the same corpus leaves the buffer the first run
\* produced byte for byte: once the second run has spliced, its buffer is
\* the first run's output.
C1_SecondRunIdentical == (run = 2 /\ AfterSplice) => source = firstOut

\* Whether body k stands on the lines right above the line of declaration d
\* in `source`, each line at d's column, d's line being as it was in `input`.
PlacedAbove(d, body) ==
    LET n == NumLines(body)
        col == d.start[2]
    IN  \E j \in 1..NumLines(source) :
          /\ j + n <= NumLines(source)
          /\ \A i \in 1..n : Line(source, j + i - 1) = Spaces(col) \o Line(body, i)
          /\ Line(source, j + n) = Line(input, d.start[1])

\* The declarations of the file read that carry an alias resolved to a
\* non-empty body and no documentation comment.
InsertionDecls ==
    {i \in 1..Len(ParseFile(input)) :
        LET d == ParseFile(input)[i]
        IN  /\ d.aliases # <<>> /\ d.docs = <<>>
            /\ d.aliases[1] \in DOMAIN c_docs
            /\ c_docs[d.aliases[1]] # <<>>}

\* C3: after the splice, the body of every aliased declaration without a
\* comment stands on the lines immediately above the declaration, and the
\* declaration still begins on a line of its own at its original column, at
\* every column, 0 included.
C3_InsertedAboveDeclaration ==
    AfterSplice =>
        \A i \in InsertionDecls :
            PlacedAbove(ParseFile(input)[i], c_docs[ParseFile(input)[i].aliases[1]])

\* The site the data model asks for declaration d: the whole comment block
\* at the comment's column, or a zero-length range at the declaration.
WholeCommentSite(s, d) ==
    IF d.docs # <<>>
    THEN <<d.docs[1][1][2],
           <<Unwrap(position(s, d.docs[1][1])), Unwrap(position(s, Last(d.docs)[2]))>>>>
    ELSE <<d.start[2], <<Unwrap(position(s, d.start)), Unwrap(position(s, d.start))>>>>

\* Every declaration of the file read that has a comment has an alias that
\* resolved to a non-empty body.
AllCommentsReplaced ==
    \A i \in 1..Len(ParseFile(input)) :
        LET d == ParseFile(input)[i]
        IN  d.docs # <<>> =>
              /\ d.aliases # <<>>
              /\ d.aliases[1] \in DOMAIN c_docs
              /\ c_docs[d.aliases[1]] # <<>>

\* C8: the site recorded for an aliased declaration with a comment spans the
\* comment from its first byte to the end of its last line, at the comment's
\* column, so that no line of the old comment is left after the splice; the
\* site of an aliased declaration without a comment is zero-length at the
\* declaration's start.
C8_SiteCoversWholeComment ==
    /\ (pc = "scan" /\ IsSome(decl) /\ Unwrap(decl).aliases # <<>>) =>
          Last(doc_locations[Unwrap(decl).aliases[1]])
            = WholeCommentSite(input, Unwrap(decl))
    /\ (run = 1 /\ AfterSplice /\ AllCommentsReplaced) =>
          \A p \in 1..Len(source) : source[p] \notin {"x", "y"}

\* The sites recorded, as <<alias, index>>.
Sites ==
    UNION {{<<k, i>> : i \in 1..Len(doc_locations[k])} : k \in DOMAIN doc_locations}

RangeOf(ki) == doc_locations[ki[1]][ki[2]][2]

\* C2: every range recorded for the file lies within the buffer, start
\* before end, and no two recorded ranges overlap.
C2_RangesInBoundsAndDisjoint ==
    /\ \A ki \in Sites :
          /\ 0 <= RangeOf(ki)[1]
          /\ RangeOf(ki)[1] <= RangeOf(ki)[2]
          /\ RangeOf(ki)[2] <= Len(input)
    /\ \A ki, kj \in Sites :
          ki # kj => \/ RangeOf(ki)[2] <= RangeOf(kj)[1]
                     \/ RangeOf(kj)[2] <= RangeOf(ki)[1]

\* Two aliases have sites, one site replaces a comment, and the declaration
\* just visited is an aliased one whose start column is past the end of its
\* line and was clamped.
C2_Witness ==
    /\ pc = "scan"
    /\ Cardinality({ki[1] : ki \in Sites}) = 2
    /\ \E ki \in Sites : RangeOf(ki)[1] < RangeOf(ki)[2]
    /\ IsSome(decl)
    /\ Unwrap(decl).aliases # <<>>
    /\ Unwrap(decl).docs = <<>>
    /\ Unwrap(decl).start[1] <= NumLines(input)
    /\ Unwrap(decl).start[2] > Len(Line(input, Unwrap(decl).start[1]))

\* C4: after the splice the file is marked changed exactly if a replacement
\* was spliced, and a file into which nothing was spliced is neither backed
\* up nor rewritten.
C4_ChangedIffSpliced ==
    AfterSplice =>
        /\ changed <=> replacements # <<>>
        /\ replacements = <<>> =>
              \A i \in 1..Len(fs) : fs[i].op \notin {"backup", "write"}

\* A lookup the site of declaration d needs is unresolved: the range of its
\* comment, or its start.
LookupUnresolved(s, d) ==
    /\ d.aliases # <<>>
    /\ \/ d.docs # <<>> /\ ~IsSome(range_for(s, d.docs[1]))
       \/ ~IsSome(position(s, d.start))

SitesOrNone(locs, k) == IF k \in DOMAIN locs THEN locs[k] ELSE <<>>

\* C9: a visit of a declaration with an unresolved lookup records no site
\* for it and leaves the sites of every alias as they were.
C9_UnresolvedLookupRecordsNothing ==
    [][(/\ pc = "scan" /\ visited' = visited + 1
        /\ IsSome(decl') /\ LookupUnresolved(input, Unwrap(decl')))
       => \A k \in AliasKeys :
             SitesOrNone(doc_locations', k) = SitesOrNone(doc_locations, k)]_vars

\* C6: (a) a backup is written only in place, with backups asked for, for a
\* changed file; (b) it holds the content read and comes before any write of
\* the file; (c) after a failed backup the file is not written; (d) not in
\* place, nothing is written and the finished run has printed the buffer.
C6_WriteOrdering ==
    /\ \A i \in 1..Len(fs) :
          fs[i].op = "backup" =>
              /\ args.in_place /\ args.backup /\ changed
              /\ fs[i].data = input
              /\ \A j \in 1..(i - 1) : fs[j].op # "write"
    /\ \A i \in 1..Len(fs) :
          (fs[i].op = "write" /\ args.backup) =>
              \E j \in 1..(i - 1) : fs[j].op = "backup" /\ fs[j].ok
    /\ (\E i \in 1..Len(fs) : fs[i].op = "backup" /\ ~fs[i].ok) =>
          \A j \in 1..Len(fs) : fs[j].op # "write"
    /\ ~args.in_place =>
          /\ \A i \in 1..Len(fs) : fs[i].op = "print"
          /\ pc = "done" => fs = <<Event("print", source, TRUE)>>

\* The backup and then the file were written, the buffer differing from the
\* content read.
C6_Witness ==
    /\ pc = "done"
    /\ Len(fs) = 2
    /\ fs[1].op = "backup" /\ fs[1].ok
    /\ fs[2].op = "write" /\ fs[2].ok
    /\ fs[2].data # fs[1].data

\* The first of the first n entities that resolves alias k: a documentable
\* kind, the name k, a parsed comment.  0 if there is none.
Matches(e, k) ==
    e.kind \in DocKinds /\ e.name = Some(k) /\ IsSome(e.comment)

FirstMatch(k, n) ==
    IF \E i \in 1..n : Matches(corpus[i], k)
    THEN Min({i \in 1..n : Matches(corpus[i], k)})
    ELSE 0

\* C5: as long as no rendering failed, the body of every needed alias is the
\* rendering of the first entity visited that matches it, empty or not, and
\* empty if none has matched.
C5_FirstMatchWins ==
    pc \in {"resolve", "splice"} =>
        \A k \in DOMAIN c_docs :
            LET i == FirstMatch(k, cvisited)
            IN  c_docs[k] = IF i = 0 THEN <<>>
                            ELSE Unwrap(xml_to_markdown(Unwrap(corpus[i].comment)))

\* The replacements' ranges lie in the buffer and no two overlap.
InBoundsDisjoint(buf, reps) ==
    /\ \A i \in 1..Len(reps) :
          reps[i][2][1] <= reps[i][2][2] /\ reps[i][2][2] <= Len(buf)
    /\ \A i, j \in 1..Len(reps) :
          i # j => \/ reps[i][2][2] <= reps[j][2][1]
                   \/ reps[j][2][2] <= reps[i][2][1]

DistinctStarts(reps) ==
    \A i, j \in 1..Len(reps) : i # j => reps[i][2][1] # reps[j][2][1]

\* Every range of buf replaced at once: at each offset the texts of the
\* replacements that start there, then the byte there unless a range covers
\* it.
Simultaneous(buf, reps) ==
    LET textAt(o) == Concat([i \in 1..Len(reps) |->
                               IF reps[i][2][1] = o THEN reps[i][1] ELSE <<>>])
        covered(o) == \E i \in 1..Len(reps) :
                         reps[i][2][1] <= o /\ o < reps[i][2][2]
    IN  Concat([q \in 1..(Len(buf) + 1) |->
                  textAt(q - 1) \o
                  (IF q <= Len(buf) /\ ~covered(q - 1) THEN <<buf[q]>> ELSE <<>>)])

\* The splice made the simultaneous replacement, whatever the order the
\* HashMap iterated in.
SplicedAsOne ==
    /\ source = Simultaneous(input, replacements)
    /\ \A order \in Orders(DOMAIN doc_locations) :
          splice(input, collect(c_docs, doc_locations, order)) = Some(source)

\* C7 as stated: for ranges in bounds and pairwise non-overlapping, shared
\* start offsets included, the splice is the simultaneous replacement and
\* does not depend on the collection order.
C7_AnySitesSplicedAsOne ==
    (pc \in {"output", "panic"} /\ InBoundsDisjoint(input, replacements))
        => pc = "output" /\ SplicedAsOne

\* C7 amended: the same for ranges in bounds, pairwise non-overlapping and of
\* pairwise distinct start offsets.
C7_DistinctStartsSplicedAsOne ==
    (/\ pc \in {"output", "panic"}
     /\ InBoundsDisjoint(input, replacements)
     /\ DistinctStarts(replacements))
        => pc = "output" /\ SplicedAsOne

\* Two aliases were spliced at distinct starts, an insertion after a
\* replacement of a non-empty range.
C7_Witness ==
    /\ pc = "output"
    /\ InBoundsDisjoint(input, replacements)
    /\ DistinctStarts(replacements)
    /\ Len(replacements) = 2
    /\ replacements[1][1] # replacements[2][1]
    /\ \E i, j \in 1..2 :
          /\ replacements[i][2][1] < replacements[i][2][2]
          /\ replacements[j][2][1] = replacements[j][2][2]
          /\ replacements[i][2][2] <= replacements[j][2][1]

\* The inline rule: the text of the text nodes below n, in document order.
RECURSIVE descendant_text(_)
descendant_text(n) ==
    IF n.kind = "text" THEN n.text
    ELSE Concat([i \in 1..Len(n.children) |-> descendant_text(n.children[i])])

InlineRule(c) ==
    IF c.kind = "text" THEN c.text
    ELSE IF c.kind = "element"
         THEN IF IsSome(node_text(c))
              THEN IF c.tag = "emphasized" THEN code(Unwrap(node_text(c)))
                   ELSE Unwrap(node_text(c))
              ELSE descendant_text(c)
    ELSE <<>>

\* C10: the rendering of a paragraph ends normally and is the inline rule
\* applied to its children in order.
C10_InlineRenderingTotal ==
    pc \in {"rendered", "panic"} =>
        /\ pc = "rendered"
        /\ rendered = Some(Concat([i \in 1..Len(xml.children) |->
                                     InlineRule(xml.children[i])]))

====
